---- MODULE Spec2Model ----
(***************************************************************************)
(* Even G2 note projection: the display logic of src/src/g2-display.ts     *)
(* (pagination, render dispatch, input-event handling) together with the   *)
(* note utilities of src/src/keep-api.ts it calls.                         *)
(*                                                                         *)
(* A JavaScript string is a sequence of characters (Unicode code points,   *)
(* as `for (const char of text)` yields them); a character is a TLA+       *)
(* string naming it.  Every asynchronous function is split at its awaits:  *)
(* the part up to the await is one action, the continuation another.       *)
(***************************************************************************)
EXTENDS Integers, Sequences, FiniteSets, TLC

(***************************************************************************)
(* Bounds of the model.                                                    *)
(***************************************************************************)
\* initG2 invocations explored
MaxInitCalls == 2
\* bridge render calls awaiting their result at the same time
MaxInFlight == 2
\* length of the strings the pagination specification draws
MaxLen == 3
\* largest byte budget the pagination specification draws
MaxBudget == 5

(***************************************************************************)
(* Characters and UTF-8.                                                   *)
(***************************************************************************)
\* U+00E9
Bytes2 == {"U+00E9"}
\* U+3042, the box-drawing rule U+2500, the characters of the untitled
\* placeholder, the corner brackets of the status message, and a lone
\* surrogate (TextEncoder encodes it as U+FFFD, three bytes)
Bytes3 == {"U+3042", "U+2500", "U+FF08", "U+7121", "U+984C", "U+FF09", "U+D83D"}
\* U+1F600 (two UTF-16 code units)
Bytes4 == {"U+1F600"}

charBytes(char) ==
  IF char \in Bytes2 THEN 2
  ELSE IF char \in Bytes3 THEN 3
  ELSE IF char \in Bytes4 THEN 4
  ELSE 1

\* TextEncoder.encode(str).byteLength: the sum of the characters' lengths
byteLength(str) ==
  Len(str)
  + Cardinality({i \in 1..Len(str) : str[i] \in Bytes2})
  + 2 * Cardinality({i \in 1..Len(str) : str[i] \in Bytes3})
  + 3 * Cardinality({i \in 1..Len(str) : str[i] \in Bytes4})

\* 'x'.repeat(n)
Repeat(char, n) == [i \in 1..n |-> char]

Min(a, b) == IF a < b THEN a ELSE b
Max(a, b) == IF a > b THEN a ELSE b

RECURSIVE Join(_, _)
\* Array.prototype.join(sep)
Join(strs, sep) ==
  IF Len(strs) = 0 THEN <<>>
  ELSE IF Len(strs) = 1 THEN strs[1]
  ELSE strs[1] \o sep \o Join(Tail(strs), sep)

Digit(d) == <<"0", "1", "2", "3", "4", "5", "6", "7", "8", "9">>[d + 1]

RECURSIVE NumberToString(_)
\* `${n}` of a non-negative integer
NumberToString(n) ==
  IF n < 10 THEN <<Digit(n)>>
  ELSE Append(NumberToString(n \div 10), Digit(n % 10))

(***************************************************************************)
(* splitIntoPages (g2-display.ts 58-80).                                   *)
(***************************************************************************)
MAX_BYTES_PER_PAGE == 900

\* the loop body without its page break
splitStepNoFlush(st, char, maxBytes) ==
  [pages |-> st.pages,
   current |-> Append(st.current, char),
   currentBytes |-> st.currentBytes + charBytes(char)]

\* the loop body losing the character that opens a page
splitStepDropChar(st, char, maxBytes) ==
  IF st.currentBytes + charBytes(char) > maxBytes
  THEN [pages |-> Append(st.pages, st.current),
        current |-> <<>>,
        currentBytes |-> 0]
  ELSE [pages |-> st.pages,
        current |-> Append(st.current, char),
        currentBytes |-> st.currentBytes + charBytes(char)]

\* one iteration of the for-of loop (63-73): st is (pages, current,
\* currentBytes)
splitStep(st, char, maxBytes) ==
  IF st.currentBytes + charBytes(char) > maxBytes
  THEN [pages |-> Append(st.pages, st.current),
        current |-> <<char>>,
        currentBytes |-> charBytes(char)]
  ELSE [pages |-> st.pages,
        current |-> Append(st.current, char),
        currentBytes |-> st.currentBytes + charBytes(char)]

RECURSIVE splitLoop(_, _, _, _, _)
\* the loop over text[lo..hi], left to right (the range is halved only to
\* keep the evaluation shallow; the test on left forces it before the rest)
splitLoop(st, text, lo, hi, maxBytes) ==
  IF lo > hi THEN st
  ELSE IF lo = hi THEN splitStep(st, text[lo], maxBytes)
  ELSE LET mid == (lo + hi) \div 2
           left == splitLoop(st, text, lo, mid, maxBytes)
       IN IF left.currentBytes < 0 THEN left
          ELSE splitLoop(left, text, mid + 1, hi, maxBytes)

splitIntoPages(text, maxBytes) ==
  LET st == splitLoop([pages |-> <<>>, current |-> <<>>, currentBytes |-> 0],
                      text, 1, Len(text), maxBytes)
      all == IF Len(st.current) > 0 THEN Append(st.pages, st.current)
             ELSE st.pages
  IN IF Len(all) > 0 THEN all ELSE << <<>> >>

(***************************************************************************)
(* Note utilities (keep-api.ts 253-281).                                   *)
(***************************************************************************)
WhiteSpace == {" ", "\n", "\t"}

\* String.prototype.trim
Trim(str) ==
  LET keep == {i \in 1..Len(str) : str[i] \notin WhiteSpace}
  IN IF keep = {} THEN <<>>
     ELSE LET first == CHOOSE i \in keep : \A j \in keep : i <= j
              last == CHOOSE i \in keep : \A j \in keep : i >= j
          IN SubSeq(str, first, last)

\* str.split('\n')[0]
FirstLine(str) ==
  LET nl == {i \in 1..Len(str) : str[i] = "\n"}
  IN IF nl = {} THEN str
     ELSE SubSeq(str, 1, (CHOOSE i \in nl : \A j \in nl : i <= j) - 1)

\* UTF-16 code units of a character
charUnits(char) == IF char \in Bytes4 THEN 2 ELSE 1

RECURSIVE TakeUnits(_, _)
\* the first n UTF-16 code units of str; a surrogate pair cut in two leaves
\* its lone high surrogate
TakeUnits(str, n) ==
  IF n = 0 \/ Len(str) = 0 THEN <<>>
  ELSE IF charUnits(str[1]) <= n
       THEN <<str[1]>> \o TakeUnits(Tail(str), n - charUnits(str[1]))
       ELSE <<"U+D83D">>

\* str.substring(0, 50)
Substring50(str) == TakeUnits(SubSeq(str, 1, Min(50, Len(str))), 50)

\* '（無題）'
Untitled == <<"U+FF08", "U+7121", "U+984C", "U+FF09">>

\* the first line of the text looked up before the title
getNoteTitleTextFirst(note) ==
  IF note.hasText /\ Len(note.text) > 0
  THEN LET cut == Substring50(Trim(FirstLine(note.text)))
       IN IF Len(cut) > 0 THEN cut ELSE Untitled
  ELSE IF Len(Trim(note.title)) > 0 THEN Trim(note.title)
  ELSE IF note.hasList /\ Len(note.listItems) > 0
          /\ Len(note.listItems[1].text) > 0
       THEN Substring50(note.listItems[1].text)
  ELSE Untitled

\* getNoteTitle (keep-api.ts 253-263)
getNoteTitle(note) ==
  IF Len(Trim(note.title)) > 0 THEN Trim(note.title)
  ELSE IF note.hasText /\ Len(note.text) > 0
       THEN LET cut == Substring50(Trim(FirstLine(note.text)))
            IN IF Len(cut) > 0 THEN cut ELSE Untitled
  ELSE IF note.hasList /\ Len(note.listItems) > 0
          /\ Len(note.listItems[1].text) > 0
       THEN Substring50(note.listItems[1].text)
  ELSE Untitled

\* every item shown as unchecked
getListItemsUnchecked(note) ==
  IF ~note.hasList THEN <<>>
  ELSE [i \in 1..Len(note.listItems) |->
          <<"[", " ", "]", " ">> \o note.listItems[i].text]

\* getListItems (keep-api.ts 268-274)
getListItems(note) ==
  IF ~note.hasList THEN <<>>
  ELSE [i \in 1..Len(note.listItems) |->
          (IF note.listItems[i].checked
           THEN <<"[", "x", "]", " ">>
           ELSE <<"[", " ", "]", " ">>) \o note.listItems[i].text]

getTextContent(note) == IF note.hasText THEN note.text ELSE <<>>

(***************************************************************************)
(* The notes the model projects (Note, keep-api.ts 31-39).  A missing      *)
(* title is the empty string; hasText and hasList say whether body.text    *)
(* and body.list are present.                                              *)
(***************************************************************************)
NoteIds == {1, 2, 3}

Notes ==
  [n \in NoteIds |->
     IF n = 1 THEN
       [name |-> "notes/1", title |-> <<" ", "M", "e", "m", "o">>,
        hasText |-> TRUE, text |-> <<"h", "i", "\n", "U+3042", "U+1F600">>,
        hasList |-> FALSE, listItems |-> <<>>]
     ELSE IF n = 2 THEN
       [name |-> "notes/2",
        title |-> <<"S", "h", "o", "p", "p", "i", "n", "g">>,
        hasText |-> TRUE, text |-> Repeat("a", 2000),
        hasList |-> FALSE, listItems |-> <<>>]
     ELSE
       [name |-> "notes/3", title |-> <<>>,
        hasText |-> FALSE, text |-> <<>>,
        hasList |-> TRUE,
        listItems |-> <<[text |-> <<"M", "i", "l", "k">>, checked |-> FALSE],
                        [text |-> <<"E", "g", "g", "s">>, checked |-> TRUE]>>]]

(***************************************************************************)
(* State (G2State, g2-display.ts 86-105, and what the runtime holds:       *)
(* pending promises, registered handlers, timers).                         *)
(***************************************************************************)
\* the connections waitForEvenAppBridge may resolve to: the SDK is not part
\* of the repository, so which handle a call yields is left open
Handles == {1, 2}

VARIABLES
  bridge,         \* state.bridge: 0 for null, else a handle
  initialized,    \* state.initialized
  currentNote,    \* state.currentNote: 0 for null, else a note id
  pages,          \* state.pages, by reference: 0 for the initial empty array,
                  \* n for the array renderNoteDetail computed from note n
  pageIndex,      \* state.pageIndex
  scrollCooldown, \* state.scrollCooldown
  timers,         \* pending setTimeout callbacks of setCooldown
  initCalls,      \* initG2 invocations that went on to connect
  connecting,     \* initG2 calls awaiting waitForEvenAppBridge
  listeners,      \* per handle, the handlers registered by onEvenHubEvent
  renders,        \* bridge render calls awaiting their result, in issue order
  created,        \* handles on which createStartUpPageContainer returned success
  reconnect,      \* what followed a handle stored while initialized was true
  shown,          \* the container of the last render call that succeeded
  windowRenders,  \* render calls issued by the event that set the cooldown
  lastIssued,     \* the render call the last step issued to a bridge, if any
  lastDone,       \* the operation the last step finished, if any, and how
  lastEvent,      \* the input event the last step delivered, if any
  pText, pBudget, pPages, pDone, \* the pagination specification's input and result
  util,           \* the note utilities' specification: input, function, result
  startup         \* the startup specification: main.ts init and what it did

vars == <<bridge, initialized, currentNote, pages, pageIndex, scrollCooldown,
          timers, initCalls, connecting, listeners, renders, created,
          reconnect, shown, windowRenders, lastIssued, lastDone, lastEvent,
          pText, pBudget, pPages, pDone, util, startup>>

pagVars == <<pText, pBudget, pPages, pDone>>

\* what the display actions leave alone
sideVars == <<pText, pBudget, pPages, pDone, util, startup>>

mainVars == <<bridge, initialized, currentNote, pages, pageIndex,
              scrollCooldown, timers, initCalls, connecting, listeners,
              renders, created, reconnect, shown, windowRenders,
              lastIssued, lastDone, lastEvent>>

\* the program state as one record, so that a handler's synchronous part is
\* a function from state to state
Cur ==
  [bridge |-> bridge, initialized |-> initialized, currentNote |-> currentNote,
   pages |-> pages, pageIndex |-> pageIndex, scrollCooldown |-> scrollCooldown,
   timers |-> timers, initCalls |-> initCalls, connecting |-> connecting,
   listeners |-> listeners, renders |-> renders,
   created |-> created, reconnect |-> reconnect, shown |-> shown,
   windowRenders |-> windowRenders, lastIssued |-> lastIssued,
   lastDone |-> lastDone, lastEvent |-> lastEvent]

\* currentNote, pages and pageIndex
Session(s) ==
  [currentNote |-> s.currentNote, pages |-> s.pages, pageIndex |-> s.pageIndex]

\* lastIssued: the call (create or rebuild), the handle it went to, the
\* container (view, and the note and page it shows), whether a create had
\* succeeded on that handle before, and how many render calls the step made
NoIssue ==
  [kind |-> "none", conn |-> 0, view |-> "none", note |-> 0,
   pageIndex |-> 0, hadCreate |-> FALSE, calls |-> 0]

\* lastDone: the operation (connect, send, event), the bridge call it
\* awaited and its result, what the caller got back, the status events the
\* operation's continuation emitted through onStatus, and whether the
\* operation left the session as it had been when the operation began
NoDone ==
  [origin |-> "none", kind |-> "none", result |-> "none", returned |-> "none",
   successStatus |-> FALSE, errorEvents |-> 0, restored |-> TRUE]

\* the session, the flags and the displayed container as an event finds them
Before(s) ==
  [currentNote |-> s.currentNote, pages |-> s.pages, pageIndex |-> s.pageIndex,
   initialized |-> s.initialized, scrollCooldown |-> s.scrollCooldown,
   shown |-> s.shown]

NoBefore ==
  [currentNote |-> 0, pages |-> 0, pageIndex |-> 0, initialized |-> FALSE,
   scrollCooldown |-> FALSE, shown |-> "none"]

\* lastEvent: the event (or the cooldown timer, or a sendNoteToG2 call), the
\* state it found, and the shutDownPageContainer and render calls its
\* handlers made before returning or awaiting
NoEvent == [ev |-> "none", pre |-> NoBefore, shutdowns |-> 0, issued |-> 0]

\* the state a step starts from: what the previous step issued, finished
\* and delivered is forgotten
Fresh ==
  [Cur EXCEPT !.lastIssued = NoIssue, !.lastDone = NoDone,
              !.lastEvent = NoEvent]

Becomes(s) ==
  /\ bridge' = s.bridge
  /\ initialized' = s.initialized
  /\ currentNote' = s.currentNote
  /\ pages' = s.pages
  /\ pageIndex' = s.pageIndex
  /\ scrollCooldown' = s.scrollCooldown
  /\ timers' = s.timers
  /\ initCalls' = s.initCalls
  /\ connecting' = s.connecting
  /\ listeners' = s.listeners
  /\ renders' = s.renders
  /\ created' = s.created
  /\ reconnect' = s.reconnect
  /\ shown' = s.shown
  /\ windowRenders' = s.windowRenders
  /\ lastIssued' = s.lastIssued
  /\ lastDone' = s.lastDone
  /\ lastEvent' = s.lastEvent

\* util before a function is applied: the index of the note of UtilNotes,
\* the function applied, and its result (a title, the checklist lines, or
\* the item container of the list view)
NoUtil ==
  [note |-> 0, op |-> "none", title |-> <<>>, items |-> <<>>,
   container |-> [itemCount |-> 0, itemName |-> <<>>]]

\* startup before the page is loaded: the revision of main.ts, where init
\* stands, the saved selection (0 for none), the section shown, the notes
\* the last fetch returned (name to "absent", "live" or "trashed"),
\* allNotes, the names renderNoteList put on the page, and the name
\* projectToG2 was called with
NoStartup ==
  [revision |-> "none", phase |-> "off", stored |-> 0, savedNoteName |-> 0,
   section |-> "none", fetch |-> "none", fetched |-> <<>>, allNotes |-> {},
   listed |-> {}, projected |-> 0]

InitMain ==
  /\ bridge = 0
  /\ initialized = FALSE
  /\ currentNote = 0
  /\ pages = 0
  /\ pageIndex = 0
  /\ scrollCooldown = FALSE
  /\ timers = 0
  /\ initCalls = 0
  /\ connecting = 0
  /\ listeners = [h \in Handles |-> 0]
  /\ renders = <<>>
  /\ created = {}
  /\ reconnect = "none"
  /\ shown = "none"
  /\ windowRenders = 0
  /\ lastIssued = NoIssue
  /\ lastDone = NoDone
  /\ lastEvent = NoEvent

Init ==
  /\ InitMain
  /\ pText = <<>>
  /\ pBudget = 1
  /\ pPages = <<>>
  /\ pDone = FALSE
  /\ util = NoUtil
  /\ startup = NoStartup

(***************************************************************************)
(* Rendering (g2-display.ts 167-280).  Each operator is the part of the    *)
(* function that runs before its await: it maps the state s to the state   *)
(* in which the bridge call has been issued and awaits its result.  A      *)
(* pending call remembers who awaits it (origin), the container it sends   *)
(* (view) and whether the operation, which writes the session only before  *)
(* its await, left the session as it was when the operation began (kept:   *)
(* pre is that earlier session).                                           *)
(***************************************************************************)
\* body (173-179): the checklist lines, or the text, or nothing
detailBody(note) ==
  IF note.hasList THEN Join(getListItems(note), <<"\n">>)
  ELSE IF note.hasText THEN getTextContent(note)
  ELSE <<>>

\* `${title}\n${'─'.repeat(20)}\n${body}` (172-181)
fullContent(note) ==
  getNoteTitle(note) \o <<"\n">> \o Repeat("U+2500", 20) \o <<"\n">>
  \o detailBody(note)

\* splitIntoPages(fullContent) of every note (184), computed once
NotePages ==
  [n \in NoteIds |-> splitIntoPages(fullContent(Notes[n]), MAX_BYTES_PER_PAGE)]

\* the array a value of state.pages refers to
PagesAt(p) == IF p = 0 THEN <<>> ELSE NotePages[p]

\* the index taken as a 1-based page number
clampedIndexOneBased(index, pgs) == Max(1, Min(index + 1, Len(pgs)))

\* Math.max(0, Math.min(pageIndex, pages.length - 1)) (188)
clampedIndex(index, pgs) == Max(0, Min(index, Len(pgs) - 1))

\* the page label counting pages from zero
detailContentZeroBased(pgs, index) ==
  IF Len(pgs) > 1
  THEN pgs[index + 1] \o <<"\n", "[">> \o NumberToString(index)
       \o <<"/">> \o NumberToString(Len(pgs)) \o <<"]">>
  ELSE pgs[index + 1]

\* the text of the container: the page, and the page label when there are
\* several pages (191-198)
detailContent(pgs, index) ==
  IF Len(pgs) > 1
  THEN pgs[index + 1] \o <<"\n", "[">> \o NumberToString(index + 1)
       \o <<"/">> \o NumberToString(Len(pgs)) \o <<"]">>
  ELSE pgs[index + 1]

\* the header and every checklist line, without the slice
displayItemsUncut(note) ==
  <<(<<"U+2500", "U+2500", " ">> \o getNoteTitle(note)
     \o <<" ", "U+2500", "U+2500">>)>> \o getListItems(note)

\* [`── ${title} ──`, ...items].slice(0, 20) (228-230)
displayItems(note) ==
  LET entries == <<(<<"U+2500", "U+2500", " ">> \o getNoteTitle(note)
                \o <<" ", "U+2500", "U+2500">>)>> \o getListItems(note)
  IN SubSeq(entries, 1, Min(20, Len(entries)))

\* the ListItemContainerProperty of renderNoteAsList (245-250)
itemContainer(note) ==
  [itemCount |-> Len(displayItems(note)), itemName |-> displayItems(note)]

\* renderPage sending its call a second time
renderPageTwice(s, h, origin, n, view, pre) ==
  LET kind == IF ~s.initialized THEN "create" ELSE "rebuild"
      call == [kind |-> kind, conn |-> h, origin |-> origin,
               view |-> view, kept |-> pre = Session(s)]
  IN [s EXCEPT
        !.renders = Append(Append(@, call), call),
        !.lastIssued = [kind |-> kind, conn |-> h, view |-> view,
                        note |-> n, pageIndex |-> s.pageIndex,
                        hadCreate |-> h \in s.created,
                        calls |-> s.lastIssued.calls + 2],
        !.reconnect = IF @ = "armed" THEN kind ELSE @,
        !.windowRenders = IF origin = "event" THEN @ + 1 ELSE @,
        !.lastEvent = IF origin = "event" THEN [@ EXCEPT !.issued = @ + 1] ELSE @]

\* renderPage up to its await (259-280): create while not initialized,
\* rebuild afterwards
renderPage(s, h, origin, n, view, pre) ==
  LET kind == IF ~s.initialized THEN "create" ELSE "rebuild"
  IN [s EXCEPT
        !.renders = Append(@, [kind |-> kind, conn |-> h, origin |-> origin,
                               view |-> view, kept |-> pre = Session(s)]),
        !.lastIssued = [kind |-> kind, conn |-> h, view |-> view,
                        note |-> n, pageIndex |-> s.pageIndex,
                        hadCreate |-> h \in s.created,
                        calls |-> s.lastIssued.calls + 1],
        !.reconnect = IF @ = "armed" THEN kind ELSE @,
        !.windowRenders = IF origin = "event" THEN @ + 1 ELSE @,
        !.lastEvent = IF origin = "event" THEN [@ EXCEPT !.issued = @ + 1] ELSE @]

\* renderNoteDetail leaving state.pages as it finds it
renderNoteDetailKeepPages(s, h, n, index, origin, pre) ==
  LET clamped == clampedIndex(index, NotePages[n])
  IN renderPage([s EXCEPT !.pageIndex = clamped], h, origin, n, "detail", pre)

\* renderNoteDetail up to the await of renderPage (167-216)
renderNoteDetail(s, h, n, index, origin, pre) ==
  LET clamped == clampedIndex(index, NotePages[n])
  IN renderPage([s EXCEPT !.pages = n, !.pageIndex = clamped],
                h, origin, n, "detail", pre)

\* the list view given up for the text of the note
renderNoteAsListFallback(s, h, n, origin, pre) ==
  renderNoteDetail(s, h, n, s.pageIndex, origin, pre)

\* renderNoteAsList up to the await of renderPage (222-253)
renderNoteAsList(s, h, n, origin, pre) ==
  IF ~Notes[n].hasList
  THEN renderNoteDetail(s, h, n, s.pageIndex, origin, pre)
  ELSE renderPage(s, h, origin, n, "list", pre)

\* setCooldown without its setTimeout
setCooldownNoTimer(s) ==
  [s EXCEPT !.scrollCooldown = TRUE, !.windowRenders = 0]

\* setCooldown (332-337)
setCooldown(s) ==
  [s EXCEPT !.scrollCooldown = TRUE, !.timers = @ + 1, !.windowRenders = 0]

Done(origin, kind, result, returned, success, errors, restored) ==
  [origin |-> origin, kind |-> kind, result |-> result, returned |-> returned,
   successStatus |-> success, errorEvents |-> errors, restored |-> restored]

(***************************************************************************)
(* initG2 (g2-display.ts 127-142).                                         *)
(***************************************************************************)
\* the call up to `await waitForEvenAppBridge()`; with a handle already
\* held it returns at once
InitG2Call ==
  /\ initCalls < MaxInitCalls
  /\ Becomes(IF bridge # 0
             THEN Fresh
             ELSE [Fresh EXCEPT !.initCalls = @ + 1, !.connecting = @ + 1])
  /\ UNCHANGED sideVars

\* waitForEvenAppBridge resolves to handle h: lines 133-136, with
\* setupEventListeners registering one more handler on h.  Handles are
\* named in the order they first appear: h is one seen before or the next.
InitG2Resolves(h) ==
  /\ connecting > 0
  /\ \A g \in Handles : g < h => listeners[g] > 0
  /\ Becomes([Fresh EXCEPT
                !.connecting = @ - 1,
                !.bridge = h,
                !.initialized = FALSE,
                !.listeners = [@ EXCEPT ![h] = @ + 1],
                !.reconnect = IF initialized /\ bridge # 0 /\ bridge # h
                              THEN "armed" ELSE @])
  /\ UNCHANGED sideVars

\* waitForEvenAppBridge rejects: the catch block, lines 137-141
InitG2Rejects ==
  /\ connecting > 0
  /\ Becomes([Fresh EXCEPT
                !.connecting = @ - 1,
                !.lastDone = Done("connect", "none", "throw", "error", FALSE, 1,
                                  TRUE)])
  /\ UNCHANGED sideVars

(***************************************************************************)
(* sendNoteToG2 (g2-display.ts 148-156) up to its await.                   *)
(***************************************************************************)
\* sendNoteToG2 keeping the page index it finds
sendNoteToG2KeepIndex(s0, n) ==
  LET s == [s0 EXCEPT !.lastEvent = [NoEvent EXCEPT !.ev = "send",
                                                    !.pre = Before(s0)]]
  IN
  IF s.bridge = 0
  THEN [s EXCEPT !.lastDone = Done("send", "none", "none", "error", FALSE, 0,
                                   TRUE)]
  ELSE renderNoteDetail([s EXCEPT !.currentNote = n],
                        s.bridge, n, s.pageIndex, "send", Session(s))

\* sendNoteToG2 without its test of the bridge
sendNoteToG2NoBridgeTest(s0, n) ==
  LET s == [s0 EXCEPT !.lastEvent = [NoEvent EXCEPT !.ev = "send",
                                                    !.pre = Before(s0)]]
  IN renderNoteDetail([s EXCEPT !.currentNote = n, !.pageIndex = 0],
                      s.bridge, n, 0, "send", Session(s))

sendNoteToG2(s0, n) ==
  LET s == [s0 EXCEPT !.lastEvent = [NoEvent EXCEPT !.ev = "send",
                                                    !.pre = Before(s0)]]
  IN
  IF s.bridge = 0
  THEN [s EXCEPT !.lastDone = Done("send", "none", "none", "error", FALSE, 0,
                                   TRUE)]
  ELSE renderNoteDetail([s EXCEPT !.currentNote = n, !.pageIndex = 0],
                        s.bridge, n, 0, "send", Session(s))

SendNoteToG2(n) ==
  /\ Len(renders) < MaxInFlight
  /\ Becomes(sendNoteToG2(Fresh, n))
  /\ UNCHANGED sideVars

(***************************************************************************)
(* The handler given to onEvenHubEvent (g2-display.ts 287-329).  An event  *)
(* is a text event (up, down, click with eventType 0, clickUndefined with  *)
(* eventType absent), a system event (doubleClick, sysOther) or of no      *)
(* known shape (unknown).                                                  *)
(***************************************************************************)
Events == {"up", "down", "click", "clickUndefined", "doubleClick", "sysOther",
           "unknown"}

\* scroll-up that shows the list container for any note
scrollTopListForAny(s, h) ==
  IF s.currentNote = 0 THEN s
  ELSE LET c == setCooldown(s)
       IN IF Len(PagesAt(c.pages)) > 1 /\ c.pageIndex > 0
          THEN renderNoteDetail(c, h, c.currentNote, c.pageIndex - 1, "event",
                                Session(s))
          ELSE renderPage(c, h, "event", c.currentNote, "list", Session(s))

\* scroll-up that renders on the first page whatever the note holds
scrollTopAlwaysRenders(s, h) ==
  IF s.currentNote = 0 THEN s
  ELSE LET c == setCooldown(s)
       IN IF Len(PagesAt(c.pages)) > 1 /\ c.pageIndex > 0
          THEN renderNoteDetail(c, h, c.currentNote, c.pageIndex - 1, "event",
                                Session(s))
          ELSE renderNoteAsList(c, h, c.currentNote, "event", Session(s))

\* SCROLL_TOP_EVENT (294-305)
scrollTop(s, h) ==
  IF s.currentNote = 0 THEN s
  ELSE LET c == setCooldown(s)
       IN IF Len(PagesAt(c.pages)) > 1 /\ c.pageIndex > 0
          THEN renderNoteDetail(c, h, c.currentNote, c.pageIndex - 1, "event",
                                Session(s))
          ELSE IF Notes[c.currentNote].hasList
          THEN renderNoteAsList(c, h, c.currentNote, "event", Session(s))
          ELSE c

\* scroll-down that skips a page
scrollBottomTwoPages(s, h) ==
  IF s.currentNote = 0 THEN s
  ELSE LET c == setCooldown(s)
       IN IF Len(PagesAt(c.pages)) > 1 /\ c.pageIndex < Len(PagesAt(c.pages)) - 1
          THEN renderNoteDetail(c, h, c.currentNote, c.pageIndex + 2, "event",
                                Session(s))
          ELSE renderNoteDetail(c, h, c.currentNote, 0, "event", Session(s))

\* SCROLL_BOTTOM_EVENT (306-318)
scrollBottom(s, h) ==
  IF s.currentNote = 0 THEN s
  ELSE LET c == setCooldown(s)
       IN IF Len(PagesAt(c.pages)) > 1 /\ c.pageIndex < Len(PagesAt(c.pages)) - 1
          THEN renderNoteDetail(c, h, c.currentNote, c.pageIndex + 1, "event",
                                Session(s))
          ELSE renderNoteDetail(c, h, c.currentNote, 0, "event", Session(s))

\* the handler without its cooldown guard
onEvenHubEventNoGuard(s, h, ev) ==
  IF ev = "up" THEN scrollTop(s, h)
  ELSE IF ev = "down" THEN scrollBottom(s, h)
  ELSE IF ev = "doubleClick"
       THEN [s EXCEPT !.lastEvent = [@ EXCEPT !.shutdowns = @ + 1]]
  ELSE s

\* the handler taking a click for a scroll-down
onEvenHubEventClickScrolls(s, h, ev) ==
  IF s.scrollCooldown THEN s
  ELSE IF ev = "up" THEN scrollTop(s, h)
  ELSE IF ev \in {"down", "click", "clickUndefined"} THEN scrollBottom(s, h)
  ELSE IF ev = "doubleClick"
       THEN [s EXCEPT !.lastEvent = [@ EXCEPT !.shutdowns = @ + 1]]
  ELSE s

\* one handler run up to its await (or to its end)
onEvenHubEvent(s, h, ev) ==
  IF s.scrollCooldown THEN s
  ELSE IF ev = "up" THEN scrollTop(s, h)
  ELSE IF ev = "down" THEN scrollBottom(s, h)
  ELSE IF ev = "doubleClick"
       THEN [s EXCEPT !.lastEvent = [@ EXCEPT !.shutdowns = @ + 1]]
  ELSE s

RECURSIVE dispatch(_, _, _, _)
\* the bridge calls each of the k handlers registered on h, in turn
dispatch(s, h, ev, k) ==
  IF k = 0 THEN s
  ELSE dispatch(onEvenHubEvent(s, h, ev), h, ev, k - 1)

\* the device reports event ev over connection h
InputEvent(h, ev) ==
  /\ listeners[h] > 0
  /\ LET s == dispatch([Fresh EXCEPT !.lastEvent = [ev |-> ev,
                                                    pre |-> Before(Fresh),
                                                    shutdowns |-> 0,
                                                    issued |-> 0]],
                       h, ev, listeners[h])
     IN /\ Len(s.renders) <= MaxInFlight
        /\ Becomes(s)
  /\ UNCHANGED sideVars

\* the setTimeout callback of setCooldown (334-336)
CooldownTimerFires ==
  /\ timers > 0
  /\ Becomes([Fresh EXCEPT !.timers = @ - 1, !.scrollCooldown = FALSE,
                            !.windowRenders = 0,
                            !.lastEvent = [NoEvent EXCEPT !.ev = "timer"]])
  /\ UNCHANGED sideVars

(***************************************************************************)
(* A pending bridge call returns: the rest of renderPage (272), and of the *)
(* caller awaiting it (sendNoteToG2 155; the handler has nothing left to   *)
(* do, and nothing catches what it throws).                                *)
(***************************************************************************)
Results(kind) ==
  IF kind = "create" THEN {"success", "failure", "throw"} ELSE {"ok", "throw"}

Without(seq, i) == SubSeq(seq, 1, i - 1) \o SubSeq(seq, i + 1, Len(seq))

renderReturns(s, i, result) ==
  LET r == s.renders[i]
      s1 == [s EXCEPT
               !.renders = Without(@, i),
               !.initialized = IF r.kind = "create" /\ result # "throw"
                               THEN result = "success" ELSE @,
               !.created = IF r.kind = "create" /\ result = "success"
                           THEN @ \cup {r.conn} ELSE @,
               !.shown = IF result \in {"success", "ok"} THEN r.view ELSE @]
  IN IF result = "throw"
     THEN [s1 EXCEPT !.lastDone = Done(r.origin, r.kind, result, "error",
                                       FALSE, 0, r.kept)]
     ELSE IF r.origin = "send"
     THEN [s1 EXCEPT !.lastDone = Done(r.origin, r.kind, result, "ok",
                               TRUE, 0, r.kept)]
     ELSE [s1 EXCEPT !.lastDone = Done(r.origin, r.kind, result, "ok",
                                       FALSE, 0, r.kept)]

RenderReturns(i, result) ==
  /\ i \in 1..Len(renders)
  /\ result \in Results(renders[i].kind)
  /\ Becomes(renderReturns(Fresh, i, result))
  /\ UNCHANGED sideVars

Next ==
  \/ InitG2Call
  \/ \E h \in Handles : InitG2Resolves(h)
  \/ InitG2Rejects
  \/ \E n \in NoteIds : SendNoteToG2(n)
  \/ \E h \in Handles, ev \in Events : InputEvent(h, ev)
  \/ CooldownTimerFires
  \/ \E i \in 1..MaxInFlight, result \in {"success", "failure", "ok", "throw"} :
       RenderReturns(i, result)

Spec == Init /\ [][Next]_vars

(***************************************************************************)
(* splitIntoPages on its own: the initial states draw a text of at most    *)
(* MaxLen characters of one to four bytes and a budget of at most          *)
(* MaxBudget bytes, and the one step applies the function.                 *)
(***************************************************************************)
Alphabet == {"a", "U+00E9", "U+3042", "U+1F600"}

Texts == UNION {[1..k -> Alphabet] : k \in 0..MaxLen}

InitPaginate ==
  /\ InitMain
  /\ pText \in Texts
  /\ pBudget \in 1..MaxBudget
  /\ pPages = <<>>
  /\ pDone = FALSE
  /\ util = NoUtil
  /\ startup = NoStartup

Paginate ==
  /\ ~pDone
  /\ pPages' = splitIntoPages(pText, pBudget)
  /\ pDone' = TRUE
  /\ UNCHANGED <<pText, pBudget, util, startup>>
  /\ UNCHANGED mainVars

SpecPaginate == InitPaginate /\ [][Paginate]_vars

(***************************************************************************)
(* Properties.                                                             *)
(***************************************************************************)
\* the text of the Detail container the last step sent
IssuedContent ==
  detailContent(NotePages[lastIssued.note], lastIssued.pageIndex)

RECURSIVE Concat(_)
\* the pages joined in order
Concat(pgs) == IF Len(pgs) = 0 THEN <<>> ELSE pgs[1] \o Concat(Tail(pgs))

C2_OneRenderInFlight == Len(renders) <= 1

C4_PageIndexInBounds ==
  Len(PagesAt(pages)) > 0 =>
    0 <= pageIndex /\ pageIndex < Len(PagesAt(pages))

\* a scroll-down has just moved the display to the last of several pages
C4_Witness ==
  /\ lastEvent.ev = "down"
  /\ lastEvent.issued = 1
  /\ Len(PagesAt(pages)) = 3
  /\ pageIndex = 2

\* C5: when a bridge render call fails (it throws, or create returns a
\* result other than success), currentNote, pages and pageIndex are as they
\* were before the failed projection or input event began.
C5_FailedRenderRestoresSession ==
  (lastDone.origin \in {"send", "event"}
   /\ lastDone.result \in {"throw", "failure"}) => lastDone.restored

\* C6: every failure (of the connection, of a render started by
\* sendNoteToG2, of a render started by an input event) produces exactly
\* one error status event through the status callback.
C6_OneStatusEventPerFailure ==
  lastDone.result \in {"throw", "failure"} => lastDone.errorEvents = 1

\* C7: when createStartUpPageContainer returns a result other than success,
\* sendNoteToG2 returns a failure to its caller and emits no success status.
C7_CreateFailureReported ==
  (lastDone.origin = "send" /\ lastDone.kind = "create"
   /\ lastDone.result = "failure")
  => (lastDone.returned = "error" /\ ~lastDone.successStatus)

\* C8: splitIntoPages(s, b) returns at least one page, the pages joined in
\* order are s, and splitIntoPages("", b) is [""].
C8_PagesReconstructText ==
  pDone => /\ Len(pPages) >= 1
           /\ Concat(pPages) = pText
           /\ (pText = <<>> => pPages = << <<>> >>)

\* a text that was split into several pages
C8_Witness == pDone /\ Len(pPages) >= 2 /\ Len(pText) = MaxLen

\* C9 as stated: for every budget b > 0, also one smaller than a character
\* of s, every page of splitIntoPages(s, b) has at most b bytes.
C9_PagesWithinAnyBudget ==
  pDone => \A i \in 1..Len(pPages) : byteLength(pPages[i]) <= pBudget

\* C9 as amended: when no character of s is longer than b bytes, every page
\* of splitIntoPages(s, b) has at most b bytes.
C9_PagesWithinBudget ==
  (pDone /\ \A i \in 1..Len(pText) : charBytes(pText[i]) <= pBudget)
  => \A i \in 1..Len(pPages) : byteLength(pPages[i]) <= pBudget

\* a text with a multi-byte character split into several pages under a
\* budget no character exceeds
C9_Witness ==
  /\ pDone
  /\ \A i \in 1..Len(pText) : charBytes(pText[i]) <= pBudget
  /\ \E i \in 1..Len(pText) : charBytes(pText[i]) > 1
  /\ Len(pPages) >= 2

\* C10: the text of every Detail container sent to the bridge, page label
\* included, has at most 900 bytes.
C10_DetailContentWithinBudget ==
  lastIssued.view = "detail" => byteLength(IssuedContent) <= MAX_BYTES_PER_PAGE

\* the scroll events
Scroll == {"up", "down"}

\* the note the last event found projected is a checklist
FoundChecklist ==
  lastEvent.pre.currentNote # 0 /\ Notes[lastEvent.pre.currentNote].hasList

\* the note the last event found projected is a text note
FoundText ==
  lastEvent.pre.currentNote # 0 /\ ~Notes[lastEvent.pre.currentNote].hasList

\* the index of the last page as the last event found it
FoundLast == Len(PagesAt(lastEvent.pre.pages)) - 1

\* the last event left currentNote, pages and pageIndex as it found them
SessionAsFound ==
  /\ currentNote = lastEvent.pre.currentNote
  /\ pages = lastEvent.pre.pages
  /\ pageIndex = lastEvent.pre.pageIndex

C12_DropOnlyAfterTransition ==
  (lastEvent.ev \in Scroll /\ lastEvent.pre.scrollCooldown)
  => windowRenders >= 1

\* C13: a double-click that is not dropped by the cooldown issues exactly
\* one shutdown request and leaves currentNote, pages, pageIndex and
\* initialized unchanged.
C13_DoubleClickOneShutdown ==
  (lastEvent.ev = "doubleClick" /\ ~lastEvent.pre.scrollCooldown)
  => /\ lastEvent.shutdowns = 1
     /\ SessionAsFound
     /\ initialized = lastEvent.pre.initialized

\* C14: with the list view of a checklist displayed, an accepted scroll-up
\* issues one Detail render at the current pageIndex.
C14_ScrollUpLeavesList ==
  (lastEvent.ev = "up" /\ ~lastEvent.pre.scrollCooldown
   /\ lastEvent.pre.shown = "list" /\ FoundChecklist)
  => /\ lastEvent.issued = 1
     /\ lastIssued.view = "detail"
     /\ pageIndex = lastEvent.pre.pageIndex

\* C15: with the list view displayed, a scroll-down issues no bridge call
\* and changes neither pageIndex nor the view.
C15_ScrollDownInListNoOp ==
  (lastEvent.ev = "down" /\ lastEvent.pre.shown = "list" /\ FoundChecklist)
  => /\ lastEvent.issued = 0
     /\ lastIssued = NoIssue
     /\ pageIndex = lastEvent.pre.pageIndex

\* C16: an accepted scroll-down at page i < last sets pageIndex to i + 1,
\* an accepted scroll-up at page i > 0 sets it to i - 1, and each issues
\* exactly one render, of the new page.
C16_ScrollMovesOnePage ==
  /\ (lastEvent.ev = "down" /\ ~lastEvent.pre.scrollCooldown
      /\ lastEvent.pre.currentNote # 0 /\ lastEvent.pre.pageIndex < FoundLast)
     => /\ pageIndex = lastEvent.pre.pageIndex + 1
        /\ lastEvent.issued = 1
        /\ lastIssued.view = "detail"
        /\ lastIssued.note = lastEvent.pre.currentNote
        /\ lastIssued.pageIndex = pageIndex
  /\ (lastEvent.ev = "up" /\ ~lastEvent.pre.scrollCooldown
      /\ lastEvent.pre.currentNote # 0 /\ lastEvent.pre.pageIndex > 0)
     => /\ pageIndex = lastEvent.pre.pageIndex - 1
        /\ lastEvent.issued = 1
        /\ lastIssued.view = "detail"
        /\ lastIssued.note = lastEvent.pre.currentNote
        /\ lastIssued.pageIndex = pageIndex

\* a scroll-down from the first to the second of three displayed pages
C16_Witness ==
  /\ lastEvent.ev = "down"
  /\ lastEvent.pre.shown = "detail"
  /\ lastEvent.pre.pageIndex = 0
  /\ FoundLast = 2
  /\ pageIndex = 1
  /\ lastEvent.issued = 1

\* C17: in Detail view on the last page, an accepted scroll-down sets
\* pageIndex to 0 and issues exactly one render, of page 0, which is a
\* rebuild when a create has already succeeded on the connection.
C17_WrapIsRebuild ==
  (lastEvent.ev = "down" /\ ~lastEvent.pre.scrollCooldown
   /\ lastEvent.pre.currentNote # 0 /\ lastEvent.pre.shown = "detail"
   /\ lastEvent.pre.pageIndex = FoundLast)
  => /\ pageIndex = 0
     /\ lastEvent.issued = 1
     /\ lastIssued.view = "detail"
     /\ lastIssued.pageIndex = 0
     /\ (lastIssued.hadCreate => lastIssued.kind = "rebuild")

\* C18: in Detail view on page 0 of a checklist, an accepted scroll-up
\* issues exactly one render, of the list container, and leaves
\* currentNote, pages and pageIndex unchanged.
C18_ScrollUpShowsList ==
  (lastEvent.ev = "up" /\ ~lastEvent.pre.scrollCooldown
   /\ lastEvent.pre.shown = "detail" /\ FoundChecklist
   /\ lastEvent.pre.pageIndex = 0)
  => /\ lastEvent.issued = 1
     /\ lastIssued.view = "list"
     /\ lastIssued.note = lastEvent.pre.currentNote
     /\ SessionAsFound

\* a scroll-up on the displayed text of the checklist
C18_Witness ==
  /\ lastEvent.ev = "up"
  /\ ~lastEvent.pre.scrollCooldown
  /\ lastEvent.pre.shown = "detail"
  /\ FoundChecklist
  /\ lastIssued.view = "list"

\* C19: on page 0 of a text note, a scroll-up issues no bridge call and
\* leaves currentNote, pages and pageIndex unchanged.
C19_ScrollUpOnTextNoOp ==
  (lastEvent.ev = "up" /\ FoundText /\ lastEvent.pre.pageIndex = 0)
  => /\ lastEvent.issued = 0
     /\ lastIssued = NoIssue
     /\ SessionAsFound

\* a scroll-up, not in cooldown, on the displayed single page of a text note
C19_Witness ==
  /\ lastEvent.ev = "up"
  /\ ~lastEvent.pre.scrollCooldown
  /\ lastEvent.pre.shown = "detail"
  /\ FoundText
  /\ lastEvent.pre.pageIndex = 0

\* C20: a text click (event type 0 or absent) and an event of no known
\* shape change neither the session nor initialized nor scrollCooldown,
\* issue no bridge call and raise no error.
C20_ClickAndUnknownNoOp ==
  lastEvent.ev \in {"click", "clickUndefined", "sysOther", "unknown"}
  => /\ Before(Cur) = lastEvent.pre
     /\ lastEvent.issued = 0
     /\ lastEvent.shutdowns = 0
     /\ lastIssued = NoIssue
     /\ lastDone = NoDone

\* a click, not in cooldown, while a note is displayed
C20_Witness ==
  /\ lastEvent.ev \in {"click", "clickUndefined"}
  /\ ~lastEvent.pre.scrollCooldown
  /\ lastEvent.pre.shown = "detail"
  /\ lastEvent.pre.currentNote # 0

\* C21: every render invocation issues exactly one bridge call: a
\* sendNoteToG2 call with a bridge issues one, an accepted scroll that
\* renders issues one, and the step in which a call returns, failed or not,
\* issues none.
C21_OneCallPerRender ==
  /\ (lastEvent.ev = "send" /\ bridge # 0) => lastIssued.calls = 1
  /\ (lastEvent.ev = "down" /\ ~lastEvent.pre.scrollCooldown
      /\ lastEvent.pre.currentNote # 0) => lastIssued.calls = 1
  /\ (lastEvent.ev = "up" /\ ~lastEvent.pre.scrollCooldown
      /\ (FoundChecklist \/ lastEvent.pre.pageIndex > 0))
     => lastIssued.calls = 1
  /\ lastIssued.calls <= 1
  /\ lastDone.kind # "none" => lastIssued.calls = 0 /\ lastIssued = NoIssue

\* a render started by an input event has thrown and nothing is in flight
C21_Witness ==
  /\ lastDone.origin = "event"
  /\ lastDone.result = "throw"
  /\ renders = <<>>

\* the title line and the separator line (181)
DetailHeader(note) ==
  getNoteTitle(note) \o <<"\n">> \o Repeat("U+2500", 20) \o <<"\n">>

\* the pagination of the body alone of every note
BodyPages ==
  [n \in NoteIds |-> splitIntoPages(detailBody(Notes[n]), MAX_BYTES_PER_PAGE)]

\* C22: the page set of the Detail view is the pagination of the note body
\* alone, and every page sent is the title line, the separator line and
\* the body slice of that page.
C22_DetailPagesAreBodyPages ==
  lastIssued.view = "detail"
  => /\ Len(NotePages[lastIssued.note]) = Len(BodyPages[lastIssued.note])
     /\ NotePages[lastIssued.note][lastIssued.pageIndex + 1]
        = DetailHeader(Notes[lastIssued.note])
          \o BodyPages[lastIssued.note][lastIssued.pageIndex + 1]

\* the decimal numerals of 1..9
Numeral == <<"1", "2", "3", "4", "5", "6", "7", "8", "9">>

C24_SendResetsPages ==
  (lastEvent.ev = "send" /\ bridge # 0)
  => /\ pageIndex = 0
     /\ pages = currentNote
     /\ lastIssued.note = currentNote
     /\ lastIssued.view = "detail"
     /\ lastIssued.pageIndex = 0

\* the note already projected is sent again from its last page
C24_Witness ==
  /\ lastEvent.ev = "send"
  /\ lastEvent.pre.currentNote = currentNote
  /\ lastEvent.pre.pageIndex = 2
  /\ pageIndex = 0

\* C28: a list container is sent only for a current note with a checklist;
\* every render issued for a text note is a Detail render.
C28_ListOnlyForChecklist ==
  /\ lastIssued.view = "list"
     => /\ currentNote # 0
        /\ lastIssued.note = currentNote
        /\ Notes[currentNote].hasList
  /\ (lastIssued.kind # "none" /\ ~Notes[lastIssued.note].hasList)
     => lastIssued.view = "detail"

\* the list container of the checklist is sent by a rebuild
C28_Witness ==
  /\ lastIssued.view = "list"
  /\ lastIssued.kind = "rebuild"
  /\ Notes[lastIssued.note].hasList

\* C29: sendNoteToG2 without a bridge fails with an error, issues no bridge
\* call, emits no status event and leaves currentNote, pages and pageIndex
\* unchanged.
C29_SendWithoutBridgeFails ==
  (lastEvent.ev = "send" /\ bridge = 0)
  => /\ lastDone.origin = "send"
     /\ lastDone.returned = "error"
     /\ ~lastDone.successStatus
     /\ lastDone.errorEvents = 0
     /\ lastIssued = NoIssue
     /\ renders = <<>>
     /\ SessionAsFound

\* sendNoteToG2 is called while initG2 still awaits the bridge
C29_Witness ==
  /\ lastEvent.ev = "send"
  /\ bridge = 0
  /\ connecting > 0
  /\ lastDone.returned = "error"

(***************************************************************************)
(* The note utilities on their own (keep-api.ts 253-274, and the item      *)
(* container of g2-display.ts 228-250): the initial states draw a note,    *)
(* and each step applies one function to it.  The notes combine a title    *)
(* (missing, blank, or padded with spaces) with a body: none, a text       *)
(* (empty, with a blank first line, of two lines, or longer than 50 code   *)
(* units with a surrogate pair across the cut), a checklist (empty, with   *)
(* a child item, with an item without text, of 21 items, with a first      *)
(* item of 60 characters), or, as the Note type allows, both.              *)
(***************************************************************************)
UtilTitles ==
  << <<>>, <<" ", "\t">>, <<" ", "T", "o", "d", "o", " ">> >>

Item(text, checked, children) ==
  [text |-> text, checked |-> checked, childListItems |-> children]

Milk == Item(<<"M", "i", "l", "k">>, FALSE, <<Item(<<"O", "a", "t">>, TRUE, <<>>)>>)

Eggs == Item(<<"E", "g", "g", "s">>, TRUE, <<>>)

TextBody(text) ==
  [hasText |-> TRUE, text |-> text, hasList |-> FALSE, listItems |-> <<>>]

ListBody(items) ==
  [hasText |-> FALSE, text |-> <<>>, hasList |-> TRUE, listItems |-> items]

UtilBodies ==
  << [hasText |-> FALSE, text |-> <<>>, hasList |-> FALSE, listItems |-> <<>>],
     TextBody(<<>>),
     TextBody(<<"\n", "x">>),
     TextBody(<<" ", "a", "b", "\n", "c", "d">>),
     TextBody(Repeat("a", 49) \o <<"U+1F600", "b">>),
     ListBody(<<>>),
     ListBody(<<Milk, Eggs>>),
     ListBody(<<Item(<<>>, FALSE, <<>>), Item(<<"x">>, TRUE, <<>>)>>),
     ListBody([i \in 1..21 |-> Item(NumberToString(i), i % 2 = 0, <<>>)]),
     ListBody(<<Item(Repeat("b", 60), FALSE, <<>>)>>),
     [hasText |-> TRUE, text |-> <<"\n", "x">>,
      hasList |-> TRUE, listItems |-> <<Milk, Eggs>>],
     [hasText |-> TRUE, text |-> <<" ", "a", "b", "\n", "c", "d">>,
      hasList |-> TRUE, listItems |-> <<Milk, Eggs>>] >>

UtilNotes ==
  [k \in 1..(Len(UtilTitles) * Len(UtilBodies)) |->
     LET body == UtilBodies[((k - 1) \div Len(UtilTitles)) + 1]
     IN [name |-> "notes/u",
         title |-> UtilTitles[((k - 1) % Len(UtilTitles)) + 1],
         hasText |-> body.hasText, text |-> body.text,
         hasList |-> body.hasList, listItems |-> body.listItems]]

\* the note drawn
UtilNote == UtilNotes[util.note]

InitNoteUtils ==
  /\ InitMain
  /\ pText = <<>>
  /\ pBudget = 1
  /\ pPages = <<>>
  /\ pDone = FALSE
  /\ util \in {[NoUtil EXCEPT !.note = k] : k \in 1..Len(UtilNotes)}
  /\ startup = NoStartup

GetNoteTitle ==
  /\ util.op = "none"
  /\ util' = [util EXCEPT !.op = "getNoteTitle",
                          !.title = getNoteTitle(UtilNote)]
  /\ UNCHANGED <<mainVars, pagVars, startup>>

GetListItems ==
  /\ util.op = "none"
  /\ util' = [util EXCEPT !.op = "getListItems",
                          !.items = getListItems(UtilNote)]
  /\ UNCHANGED <<mainVars, pagVars, startup>>

\* renderNoteAsList builds the item container of a note with a list (223-250)
BuildItemContainer ==
  /\ util.op = "none"
  /\ UtilNote.hasList
  /\ util' = [util EXCEPT !.op = "itemContainer",
                          !.container = itemContainer(UtilNote)]
  /\ UNCHANGED <<mainVars, pagVars, startup>>

NextNoteUtils == GetNoteTitle \/ GetListItems \/ BuildItemContainer

SpecNoteUtils == InitNoteUtils /\ [][NextNoteUtils]_vars

\* C25: getListItems returns one string per top-level item, in order,
\* "[x] " + text for a checked item and "[ ] " + text otherwise; child
\* items add nothing, and a note without a checklist gives no strings.
C25_ListItemsFormat ==
  util.op = "getListItems"
  => IF ~UtilNote.hasList THEN util.items = <<>>
     ELSE /\ Len(util.items) = Len(UtilNote.listItems)
          /\ \A i \in 1..Len(util.items) :
               util.items[i]
               = (IF UtilNote.listItems[i].checked
                  THEN <<"[", "x", "]", " ">> ELSE <<"[", " ", "]", " ">>)
                 \o UtilNote.listItems[i].text

\* the lines of a checklist whose first item has a child item
C25_Witness ==
  /\ util.op = "getListItems"
  /\ UtilNote.hasList
  /\ Len(UtilNote.listItems) = 2
  /\ Len(UtilNote.listItems[1].childListItems) = 1
  /\ util.items[2] = <<"[", "x", "]", " ", "E", "g", "g", "s">>

RECURSIVE Units(_)
\* the length of str in UTF-16 code units
Units(str) == IF str = <<>> THEN 0 ELSE charUnits(str[1]) + Units(Tail(str))

\* cut is str cut to n UTF-16 code units: it has Min(n, length) units and
\* agrees with str, but for the last unit when a surrogate pair straddles
\* the cut
CutTo(str, n, cut) ==
  /\ Units(cut) = Min(n, Units(str))
  /\ Len(cut) <= Len(str)
  /\ \A i \in 1..Len(cut) :
       \/ cut[i] = str[i]
       \/ i = Len(cut) /\ charUnits(str[i]) = 2 /\ cut[i] = "U+D83D"

C27_ItemContainerBounded ==
  util.op = "itemContainer"
  => LET entries == util.container.itemName
         lines == getListItems(UtilNote)
     IN /\ Len(entries) = Min(20, 1 + Len(lines))
        /\ entries[1] = <<"U+2500", "U+2500", " ">> \o getNoteTitle(UtilNote)
                        \o <<" ", "U+2500", "U+2500">>
        /\ \A k \in 2..Len(entries) : entries[k] = lines[k - 1]
        /\ util.container.itemCount = Len(entries)

\* the container of a checklist of 21 items
C27_Witness ==
  /\ util.op = "itemContainer"
  /\ Len(UtilNote.listItems) = 21
  /\ util.container.itemCount = 20

(***************************************************************************)
(* Startup (main.ts, init): the revision with the backend server (555-595) *)
(* and the revision with OAuth (210-268).  stored is the selection in      *)
(* localStorage (0: none), savedNoteName the value init read from it,      *)
(* section the section shown, fetched the answer of the last fetch: for    *)
(* each note name, whether the answer has no such note, a live one or a    *)
(* trashed one.  fetch is the outcome of the fetch that restores the       *)
(* selection.  projected is the note handed to projectToG2.                *)
(***************************************************************************)
Revisions == {"backend", "oauth"}

Fetches == [NoteIds -> {"absent", "live", "trashed"}]

notTrashedKeepsAll(notes) == {n \in NoteIds : notes[n] # "absent"}

\* notes.filter(n => !n.trashed)
notTrashed(notes) == {n \in NoteIds : notes[n] = "live"}

InitStartup ==
  /\ InitMain
  /\ pText = <<>>
  /\ pBudget = 1
  /\ pPages = <<>>
  /\ pDone = FALSE
  /\ util = NoUtil
  /\ startup \in {[NoStartup EXCEPT !.revision = r, !.phase = "start",
                                    !.stored = n] :
                    r \in Revisions, n \in {0} \cup NoteIds}

\* init from the read of the saved selection to the next await
restoreOrSelect(s) ==
  IF s.stored # 0
  THEN [s EXCEPT !.savedNoteName = s.stored, !.section = "status",
                 !.phase = "restoring"]
  ELSE [s EXCEPT !.savedNoteName = 0, !.section = "select",
                 !.phase = "loading"]

\* the synchronous part of projectToG2: the status section, the selection
\* saved, and the note on its way to the glasses
projectToG2(s, n) ==
  [s EXCEPT !.section = "status", !.stored = n, !.projected = n]

\* renderNoteList(allNotes, ...)
renderNoteList(s) == [s EXCEPT !.listed = s.allNotes]

\* init is called: the backend revision awaits the health check; the OAuth
\* revision looks at the OAuth callback and the stored token
InitCalled ==
  /\ startup.phase = "start"
  /\ \/ /\ startup.revision = "backend"
        /\ startup' = [startup EXCEPT !.phase = "health"]
     \/ /\ startup.revision = "oauth"
        /\ \E oauthResult \in {"error", "token", "none"}, token \in BOOLEAN :
             startup' =
               IF oauthResult = "error"
               THEN [startup EXCEPT !.section = "auth", !.phase = "done"]
               ELSE IF oauthResult = "token"
               THEN [startup EXCEPT !.section = "select", !.phase = "loading"]
               ELSE IF ~token
               THEN [startup EXCEPT !.section = "auth", !.phase = "done"]
               ELSE restoreOrSelect(startup)
  /\ UNCHANGED <<mainVars, pagVars, util>>

\* checkBackendHealth resolves
HealthResolves ==
  /\ startup.phase = "health"
  /\ \E healthy \in BOOLEAN :
       startup' = IF ~healthy
                  THEN [startup EXCEPT !.section = "backend", !.phase = "done"]
                  ELSE restoreOrSelect(startup)
  /\ UNCHANGED <<mainVars, pagVars, util>>

\* the fetch of the restore resolves with notes
RestoreFetchResolves ==
  /\ startup.phase = "restoring"
  /\ \E notes \in Fetches :
       LET s1 == [startup EXCEPT !.fetch = "resolved", !.fetched = notes,
                                 !.allNotes = notTrashed(notes),
                                 !.phase = "done"]
       IN startup' =
            IF s1.savedNoteName \in s1.allNotes
            THEN projectToG2(s1, s1.savedNoteName)
            ELSE renderNoteList([s1 EXCEPT !.stored = 0, !.section = "select"])
  /\ UNCHANGED <<mainVars, pagVars, util>>

\* the fetch of the restore rejects; the OAuth revision tells an expired
\* session from another error
RestoreFetchRejects ==
  /\ startup.phase = "restoring"
  /\ \E expired \in BOOLEAN :
       startup' =
         IF startup.revision = "oauth" /\ expired
         THEN [startup EXCEPT !.fetch = "expired", !.section = "auth",
                              !.phase = "done"]
         ELSE [startup EXCEPT !.fetch = "rejected", !.section = "select",
                              !.phase = "loading"]
  /\ UNCHANGED <<mainVars, pagVars, util>>

\* the fetch of loadNotes resolves with notes
LoadNotesResolves ==
  /\ startup.phase = "loading"
  /\ \E notes \in Fetches :
       startup' = renderNoteList([startup EXCEPT !.fetched = notes,
                                                 !.allNotes = notTrashed(notes),
                                                 !.phase = "done"])
  /\ UNCHANGED <<mainVars, pagVars, util>>

\* the fetch of loadNotes rejects
LoadNotesRejects ==
  /\ startup.phase = "loading"
  /\ \E expired \in BOOLEAN :
       startup' =
         IF startup.revision = "oauth" /\ expired
         THEN [startup EXCEPT !.section = "auth", !.phase = "done"]
         ELSE [startup EXCEPT !.phase = "done"]
  /\ UNCHANGED <<mainVars, pagVars, util>>

NextStartup ==
  \/ InitCalled
  \/ HealthResolves
  \/ RestoreFetchResolves
  \/ RestoreFetchRejects
  \/ LoadNotesResolves
  \/ LoadNotesRejects

SpecStartup == InitStartup /\ [][NextStartup]_vars

\* no note that the last fetch gave as trashed, or did not give, is listed
\* or projected
NoTrashedShown ==
  \A n \in startup.listed \cup ({startup.projected} \ {0}) :
    /\ startup.fetched # <<>>
    /\ startup.fetched[n] = "live"

\* C30: once the fetch of the restore has resolved, the saved note is
\* projected if and only if a note with that name that is not trashed is
\* among the fetched notes, and otherwise the saved selection is cleared
\* and the selection screen shown; nothing is projected before, nor when
\* that fetch fails, and then the saved selection is kept.  A trashed note
\* is never projected or listed.
C30_RestoreOnlyLiveNote ==
  /\ NoTrashedShown
  /\ startup.projected # 0
     => /\ startup.fetch = "resolved"
        /\ startup.projected = startup.savedNoteName
        /\ startup.stored = startup.savedNoteName
        /\ startup.section = "status"
  /\ startup.fetch = "resolved" /\ startup.projected = 0
     => /\ startup.fetched[startup.savedNoteName] # "live"
        /\ startup.stored = 0
        /\ startup.section = "select"
        /\ startup.listed = notTrashed(startup.fetched)
  /\ startup.fetch \in {"rejected", "expired"}
     => /\ startup.projected = 0
        /\ startup.stored = startup.savedNoteName
        /\ startup.fetch = "expired" => startup.section = "auth"
        /\ startup.fetch = "rejected" => startup.section \in {"select", "auth"}
        /\ startup.revision = "backend" => startup.section = "select"

\* the saved note came back trashed: the selection is cleared and the
\* other notes are listed
C30_Witness ==
  /\ startup.fetch = "resolved"
  /\ startup.savedNoteName # 0
  /\ startup.fetched[startup.savedNoteName] = "trashed"
  /\ startup.stored = 0
  /\ startup.section = "select"
  /\ startup.listed # {}

\* C30 as stated: startup with a saved selection ends with the saved note
\* projected, or else with the selection cleared and the selection screen
\* shown
C30_RestoreElseCleared ==
  startup.phase = "done" /\ startup.savedNoteName # 0
  => \/ /\ startup.projected = startup.savedNoteName
        /\ startup.fetched[startup.projected] = "live"
     \/ /\ startup.projected = 0
        /\ startup.stored = 0
        /\ startup.section = "select"

(***************************************************************************)
(* Concurrency of initG2, the cooldown and the page cache.                 *)
(***************************************************************************)
\* the handlers registered over all handles
Registered == listeners[1] + listeners[2]

\* C31: whatever the interleaving of initG2 calls, the bridge is connected
\* at most once and the input-event handler registered at most once, and
\* no step resets initialized to false while the held connection is one
\* on which a create has succeeded, unless it is the failure of a create.
C31_InitG2ConnectsOnce ==
  /\ [](initCalls <= 1 /\ Registered <= 1)
  /\ [][(initialized /\ bridge # 0 /\ bridge \in created /\ ~initialized')
        => lastDone'.kind = "create"]_vars

\* C32: the cooldown holds back scroll events only: a double-click that
\* arrives while scrollCooldown is true still issues the shutdown request.
C32_DoubleClickIgnoresCooldown ==
  (lastEvent.ev = "doubleClick" /\ lastEvent.pre.scrollCooldown)
  => lastEvent.shutdowns >= 1

\* the notes sent where the cooldown is followed to its release: a text of
\* one page, whose scroll-up sets the cooldown and renders nothing, and a
\* checklist, whose scrolls render the list and the detail container
TimerNotes == {1, 3}

NextTimerFires ==
  \/ InitG2Call
  \/ \E h \in Handles : InitG2Resolves(h)
  \/ InitG2Rejects
  \/ \E n \in TimerNotes : SendNoteToG2(n)
  \/ \E h \in Handles, ev \in Events : InputEvent(h, ev)
  \/ CooldownTimerFires
  \/ \E i \in 1..MaxInFlight, result \in {"success", "failure", "ok", "throw"} :
       RenderReturns(i, result)

\* the display under the assumption that a timer that is set fires: the
\* browser runs a setTimeout callback once its delay is over, whatever
\* else is pending; nothing is assumed of the bridge's answers
SpecTimerFires ==
  Init /\ [][NextTimerFires]_vars /\ WF_vars(CooldownTimerFires)

\* C33: whenever scrollCooldown is true it becomes false again, given that
\* the timer fires and although pending renders may never complete; a
\* release timer is pending exactly while scrollCooldown is true, and
\* never more than one.
C33_CooldownReleased ==
  /\ [](timers <= 1 /\ (scrollCooldown <=> timers = 1))
  /\ (scrollCooldown ~> ~scrollCooldown)

\* the timer releases the cooldown while the render of the scroll that set
\* it is still pending
C33_Witness ==
  /\ lastEvent.ev = "timer"
  /\ ~scrollCooldown
  /\ timers = 0
  /\ Len(renders) >= 1
  /\ renders[Len(renders)].origin = "event"

\* C34: in every state between two steps (each await point, and between
\* events), once a note is projected, the cached pages are the pagination
\* of currentNote's content and pageIndex is one of its pages; every
\* Detail render is issued for page pageIndex of currentNote, and the
\* session changes only in a step that issues a Detail render, so that
\* the last Detail render issued shows page pageIndex of currentNote.
C34_CacheFollowsCurrentNote ==
  /\ [](currentNote # 0
        => /\ pages = currentNote
           /\ PagesAt(pages) = NotePages[currentNote]
           /\ pageIndex \in 0..(Len(PagesAt(pages)) - 1))
  /\ [](lastIssued.view = "detail"
        => /\ lastIssued.note = currentNote
           /\ lastIssued.pageIndex = pageIndex)
  /\ [][<<currentNote, pages, pageIndex>>' # <<currentNote, pages, pageIndex>>
        => lastIssued'.view = "detail"]_vars

\* another note is sent while the render of the note selected before, left
\* on another page, is still pending
C34_Witness ==
  /\ lastEvent.ev = "send"
  /\ lastEvent.pre.currentNote \notin {0, currentNote}
  /\ lastEvent.pre.pageIndex > 0
  /\ pages = currentNote
  /\ pageIndex = 0
  /\ Len(renders) = 2

====
